---- MODULE Spec2Model ----
(***************************************************************************)
(* Model of scripts/simple_transcribe.py: the batch driver `main` and the  *)
(* helpers it calls.  One run of the script is one behaviour.  The object  *)
(* store (audio objects and metadata records), the document service, the   *)
(* scratch directory and the host are the environment; every call into    *)
(* them either returns or raises, chosen nondeterministically.             *)
(*                                                                         *)
(* Strings that the code takes apart are modelled by their structure: an   *)
(* object name is the sequence of its "/"-separated components and a       *)
(* component is the sequence of its "."-separated parts, so                *)
(* "audio_files/sub/a.m4a" is << <<"audio_files">>, <<"sub">>,             *)
(* <<"a","m4a">> >>.                                                       *)
(***************************************************************************)
EXTENDS Integers, Sequences, FiniteSets, TLC

\* Most objects the bucket holds in one run.
MaxFiles == 3

(***************************************************************************)
(* Configuration                                                           *)
(***************************************************************************)
WHISPER_MODEL == "medium"
GCS_AUDIO_PREFIX == << <<"audio_files">> >>
GCS_METADATA_PREFIX == << <<"metadata">> >>

(***************************************************************************)
(* pathlib and str helpers                                                 *)
(***************************************************************************)
\* Path(p).name: the final component of a path.
PathName(p) == p[Len(p)]

\* Path(n).stem: the final component without its suffix.  The suffix is the
\* text from the last "." on, unless that "." is the first character or the
\* last character of the name.
PathStem(n) ==
    IF /\ Len(n) >= 2
       /\ n[Len(n)] # ""
       /\ ~(Len(n) = 2 /\ n[1] = "")
    THEN SubSeq(n, 1, Len(n) - 1)
    ELSE n

\* blob.name.endswith('.m4a')
EndsWithM4a(p) ==
    LET n == p[Len(p)] IN Len(n) >= 2 /\ n[Len(n)] = "m4a"

\* metadata_path of load_metadata and save_metadata:
\* f"{GCS_METADATA_PREFIX}{Path(filename).stem}.json"
MetadataPath(filename) ==
    GCS_METADATA_PREFIX \o << PathStem(filename) \o <<"json">> >>

\* dict.update
DictUpdate(d, u) ==
    [k \in DOMAIN d \cup DOMAIN u |-> IF k \in DOMAIN u THEN u[k] ELSE d[k]]

\* doc_url = f"https://docs.google.com/document/d/{doc_id}"
DocUrl(doc_id) == <<"https://docs.google.com/document/d/", doc_id>>

(***************************************************************************)
(* The environment a run can start in                                      *)
(***************************************************************************)
\* Objects that may sit under gs://custom-transcription/audio_files/, in the
\* order list_blobs returns them (by name).
BucketObjects ==
    << GCS_AUDIO_PREFIX \o << <<"a", "m4a">> >>,
       GCS_AUDIO_PREFIX \o << <<"b", "m4a">> >>,
       GCS_AUDIO_PREFIX \o << <<"notes", "txt">> >>,
       GCS_AUDIO_PREFIX \o << <<"sub">>, <<"a", "m4a">> >> >>

\* list_blobs over the objects whose index is in S.
ListBlobs(S) ==
    LET F[k \in 0..Len(BucketObjects)] ==
            IF k = 0 THEN <<>>
            ELSE IF k \in S THEN Append(F[k - 1], BucketObjects[k])
            ELSE F[k - 1]
    IN F[Len(BucketObjects)]

\* The audio file names metadata records may already exist for.  A stored
\* record has the shape this script gives it, so its filename field leads
\* back to the path it is stored under.
KnownFiles == << <<"a", "m4a">>, <<"b", "m4a">> >>

\* The record load_metadata synthesizes when none can be read.  The
\* timestamps (created_at, transcribed_at), the segment list and the two
\* durations are left out of the records: no branch of the driver reads them.
NewMetadata(filename) ==
    [ filename |-> filename,
      title    |-> PathStem(filename),
      gcs_path |-> GCS_AUDIO_PREFIX \o <<filename>>,
      status   |-> "pending" ]

\* What model.transcribe returns for the audio downloaded from gcs_path.
WhisperText(gcs_path) == <<"text of", gcs_path>>

\* The fields transcribe_audio writes into the record.
TranscribedFields(text) ==
    [ transcript    |-> text,
      whisper_model |-> WHISPER_MODEL,
      status        |-> "transcribed" ]

\* Variant: the status is not advanced to completed.
DocFields_NoStatus(doc_id, doc_url) ==
    [ google_doc_id  |-> doc_id,
      google_doc_url |-> doc_url ]

\* The fields main writes into the record after publication.
DocFields(doc_id, doc_url) ==
    [ google_doc_id  |-> doc_id,
      google_doc_url |-> doc_url,
      status         |-> "completed" ]

\* A record an earlier run saved for KnownFiles[n]; its document has id -n.
EarlierRecord(n) ==
    DictUpdate(
        DictUpdate(NewMetadata(KnownFiles[n]),
                   TranscribedFields(WhisperText(GCS_AUDIO_PREFIX \o <<KnownFiles[n]>>))),
        DocFields(0 - n, DocUrl(0 - n)))

\* A record left with status pending for KnownFiles[n].
PendingRecord(n) == NewMetadata(KnownFiles[n])

VARIABLES
    bucket,       \* the objects under the audio prefix, in listing order
    store,        \* metadata objects: metadata path -> record
    docs,         \* documents created in this run
    scratch,      \* file names present in TEMP_AUDIO_DIR
    poweroff,     \* number of times "shutdown -h now" was issued
    pc,           \* main's position
    audio_files,  \* main's audio_files
    i,            \* main's loop index (1-based)
    metadata,     \* main's metadata
    transcript,   \* main's transcript
    completed,    \* main's completed
    stages,       \* per item: the calls main made for it, in order
    failed,       \* per item: the stage that raised, "" if none
    counted,      \* per item: times completed was incremented for it
    unread,       \* items whose stored record existed but could not be read
    store0        \* the store when the run started

vars == << bucket, store, docs, scratch, poweroff, pc, audio_files, i,
           metadata, transcript, completed, stages, failed, counted, unread,
           store0 >>

NoMetadata == [status |-> "unset"]

Init ==
    /\ \E S \in SUBSET (1..Len(BucketObjects)) :
          /\ Cardinality(S) <= MaxFiles
          /\ bucket = ListBlobs(S)
    /\ \E kind \in [1..Len(KnownFiles) -> {"absent", "pending", "completed"}] :
          store = [ p \in { MetadataPath(KnownFiles[n]) :
                              n \in { m \in 1..Len(KnownFiles) : kind[m] # "absent" } }
                    |-> LET n == CHOOSE m \in 1..Len(KnownFiles) :
                                     MetadataPath(KnownFiles[m]) = p
                        IN IF kind[n] = "pending" THEN PendingRecord(n)
                           ELSE EarlierRecord(n) ]
    /\ store0 = store
    /\ docs = {}
    /\ scratch = {}
    /\ poweroff = 0
    /\ pc = "discover"
    /\ audio_files = <<>>
    /\ i = 1
    /\ metadata = NoMetadata
    /\ transcript = <<>>
    /\ completed = 0
    /\ stages = <<>>
    /\ failed = <<>>
    /\ counted = <<>>
    /\ unread = {}

(***************************************************************************)
(* Helpers of the driver                                                   *)
(***************************************************************************)
\* get_audio_files_from_gcs
get_audio_files_from_gcs(blobs) ==
    LET F[k \in 0..Len(blobs)] ==
            IF k = 0 THEN <<>>
            ELSE IF EndsWithM4a(blobs[k])
                 THEN Append(F[k - 1], [ filename |-> PathName(blobs[k]),
                                         gcs_path |-> blobs[k] ])
                 ELSE F[k - 1]
    IN F[Len(blobs)]

\* load_metadata; readable is whether the object could be fetched and parsed.
load_metadata(filename, readable) ==
    IF readable /\ MetadataPath(filename) \in DOMAIN store
    THEN store[MetadataPath(filename)]
    ELSE NewMetadata(filename)

\* Variant: the upload is lost.
save_metadata_NoUpload(m) == store

\* save_metadata: the store after the upload.
save_metadata(m) ==
    [ p \in DOMAIN store \cup {MetadataPath(m.filename)} |->
        IF p = MetadataPath(m.filename) THEN m ELSE store[p] ]

\* Variant: the skip test looks for the intermediate status.
AlreadyTranscribed_WrongStatus(m) ==
    m.status = "transcribed" /\ "google_doc_url" \in DOMAIN m

\* The skip test of main.
AlreadyTranscribed(m) ==
    m.status = "completed" /\ "google_doc_url" \in DOMAIN m

\* The loop moves to the next item, or leaves the loop.
NextItem ==
    /\ i' = i + 1
    /\ pc' = IF i + 1 > Len(audio_files) THEN "summary" ELSE "load"

Did(names) == stages' = [stages EXCEPT ![i] = @ \o names]
Raised(stage) == failed' = [failed EXCEPT ![i] = stage]
Counted == counted' = [counted EXCEPT ![i] = @ + 1]

(***************************************************************************)
(* main                                                                    *)
(***************************************************************************)
\* Discovery, the empty-list return, and entry into the loop.
Discover ==
    /\ pc = "discover"
    /\ audio_files' = get_audio_files_from_gcs(bucket)
    /\ pc' = IF audio_files' = <<>> THEN "done" ELSE "load"
    /\ stages' = [k \in 1..Len(audio_files') |-> <<>>]
    /\ failed' = [k \in 1..Len(audio_files') |-> ""]
    /\ counted' = [k \in 1..Len(audio_files') |-> 0]
    /\ UNCHANGED << bucket, store, docs, scratch, poweroff, i, metadata,
                    transcript, completed, unread, store0 >>

\* Load the record and take or pass the skip branch.
LoadMetadata ==
    /\ pc = "load"
    /\ \E readable \in BOOLEAN :
          /\ metadata' = load_metadata(audio_files[i].filename, readable)
          /\ unread' = IF ~readable /\ MetadataPath(audio_files[i].filename) \in DOMAIN store
                       THEN unread \cup {i}
                       ELSE unread
          /\ IF AlreadyTranscribed(metadata')
             THEN /\ completed' = completed + 1
                  /\ Counted
                  /\ Did(<<"load", "skip">>)
                  /\ NextItem
             ELSE /\ pc' = "download"
                  /\ Did(<<"load">>)
                  /\ UNCHANGED << completed, counted, i >>
    /\ UNCHANGED << bucket, store, docs, scratch, poweroff, audio_files,
                    transcript, failed, store0 >>

\* download_audio_file; a failed download may leave a partial file behind.
Download ==
    /\ pc = "download"
    /\ Did(<<"download">>)
    /\ \E ok \in BOOLEAN, partial \in BOOLEAN :
          IF ok
          THEN /\ scratch' = scratch \cup {audio_files[i].filename}
               /\ pc' = "transcribe"
               /\ UNCHANGED failed
          ELSE /\ scratch' = IF partial
                             THEN scratch \cup {audio_files[i].filename}
                             ELSE scratch
               /\ pc' = "handler"
               /\ Raised("download")
    /\ UNCHANGED << bucket, store, docs, poweroff, audio_files, i, metadata,
                    transcript, completed, counted, unread,
                    store0 >>

\* Variant: the record is saved right after transcription.
Transcribe_SavesEarly ==
    /\ pc = "transcribe"
    /\ Did(<<"transcribe">>)
    /\ \E ok \in BOOLEAN :
          IF ok
          THEN /\ transcript' = WhisperText(audio_files[i].gcs_path)
               /\ metadata' = DictUpdate(metadata, TranscribedFields(transcript'))
               /\ store' = save_metadata(metadata')
               /\ pc' = "publish"
               /\ UNCHANGED failed
          ELSE /\ pc' = "handler"
               /\ Raised("transcribe")
               /\ UNCHANGED << metadata, transcript, store >>
    /\ UNCHANGED << bucket, docs, scratch, poweroff, audio_files, i,
                    completed, counted, unread, store0 >>

\* transcribe_audio
Transcribe ==
    /\ pc = "transcribe"
    /\ Did(<<"transcribe">>)
    /\ \E ok \in BOOLEAN :
          IF ok
          THEN /\ transcript' = WhisperText(audio_files[i].gcs_path)
               /\ metadata' = DictUpdate(metadata, TranscribedFields(transcript'))
               /\ pc' = "publish"
               /\ UNCHANGED failed
          ELSE /\ pc' = "handler"
               /\ Raised("transcribe")
               /\ UNCHANGED << metadata, transcript >>
    /\ UNCHANGED << bucket, store, docs, scratch, poweroff, audio_files, i,
                    completed, counted, unread,
                    store0 >>

\* create_google_doc and the record update that follows it.  The call can
\* raise before the document exists or after it was created.
Publish ==
    /\ pc = "publish"
    /\ Did(<<"publish">>)
    /\ \E ok \in BOOLEAN, created \in BOOLEAN :
          LET doc_id == Cardinality(docs) + 1
              doc == [ id    |-> doc_id,
                       title |-> <<metadata.title, " - Transcript">>,
                       text  |-> IF ok THEN transcript ELSE <<>> ]
          IN IF ok
             THEN /\ docs' = docs \cup {doc}
                  /\ metadata' = DictUpdate(metadata, DocFields(doc_id, DocUrl(doc_id)))
                  /\ pc' = "save"
                  /\ UNCHANGED failed
             ELSE /\ docs' = IF created THEN docs \cup {doc} ELSE docs
                  /\ pc' = "handler"
                  /\ Raised("publish")
                  /\ UNCHANGED metadata
    /\ UNCHANGED << bucket, store, scratch, poweroff, audio_files, i,
                    transcript, completed, counted, unread,
                    store0 >>

\* save_metadata
Save ==
    /\ pc = "save"
    /\ Did(<<"save">>)
    /\ \E ok \in BOOLEAN :
          IF ok
          THEN /\ store' = save_metadata(metadata)
               /\ pc' = "cleanup"
               /\ UNCHANGED failed
          ELSE /\ pc' = "handler"
               /\ Raised("save")
               /\ UNCHANGED store
    /\ UNCHANGED << bucket, docs, scratch, poweroff, audio_files, i, metadata,
                    transcript, completed, counted, unread,
                    store0 >>

\* temp_audio_path.unlink() and the count of the item.
Cleanup ==
    /\ pc = "cleanup"
    /\ Did(<<"cleanup">>)
    /\ \E ok \in BOOLEAN :
          IF ok
          THEN /\ scratch' = scratch \ {audio_files[i].filename}
               /\ completed' = completed + 1
               /\ Counted
               /\ NextItem
               /\ UNCHANGED failed
          ELSE /\ pc' = "handler"
               /\ Raised("cleanup")
               /\ UNCHANGED << scratch, completed, counted, i >>
    /\ UNCHANGED << bucket, store, docs, poweroff, audio_files, metadata,
                    transcript, unread,
                    store0 >>

\* Variant: the except clause goes on without removing the scratch file.
Handler_NoUnlink ==
    /\ pc = "handler"
    /\ NextItem
    /\ Did(<<"handler">>)
    /\ UNCHANGED << bucket, store, docs, scratch, poweroff, audio_files,
                    metadata, transcript, completed, failed, counted, unread,
                    store0 >>

\* The except clause: remove the scratch file if it exists, go on.  The
\* unlink is not guarded: when it raises, the exception leaves main.
Handler ==
    /\ pc = "handler"
    /\ \E ok \in BOOLEAN :
          IF audio_files[i].filename \in scratch /\ ~ok
          THEN /\ pc' = "aborted"
               /\ UNCHANGED << scratch, i >>
          ELSE /\ scratch' = scratch \ {audio_files[i].filename}
               /\ NextItem
    /\ Did(<<"handler">>)
    /\ UNCHANGED << bucket, store, docs, poweroff, audio_files, metadata,
                    transcript, completed, failed, counted, unread,
                    store0 >>

\* The final summary and the shutdown test.
Summary ==
    /\ pc = "summary"
    /\ pc' = IF completed > 0 THEN "shutdown" ELSE "done"
    /\ UNCHANGED << bucket, store, docs, scratch, poweroff, audio_files, i,
                    metadata, transcript, completed, stages, failed, counted,
                    unread,
                    store0 >>

\* shutdown_instance: the delay ends and the host is powered off, or the
\* operator interrupts the delay.
Shutdown ==
    /\ pc = "shutdown"
    /\ \E interrupted \in BOOLEAN :
          IF interrupted
          THEN /\ pc' = "cancelled"
               /\ UNCHANGED poweroff
          ELSE /\ pc' = "poweroff"
               /\ poweroff' = poweroff + 1
    /\ UNCHANGED << bucket, store, docs, scratch, audio_files, i, metadata,
                    transcript, completed, stages, failed, counted, unread,
                    store0 >>

Next ==
    \/ Discover
    \/ LoadMetadata
    \/ Download
    \/ Transcribe
    \/ Publish
    \/ Save
    \/ Cleanup
    \/ Handler
    \/ Summary
    \/ Shutdown

Spec == Init /\ [][Next]_vars

(***************************************************************************)
(* Vocabulary of the properties                                            *)
(***************************************************************************)
Items == 1..Len(audio_files)
KeyOf(k) == MetadataPath(audio_files[k].filename)
Has(seq, x) == \E j \in 1..Len(seq) : seq[j] = x
RecordSet(s, p) == IF p \in DOMAIN s THEN {s[p]} ELSE {}
IsDone(r) == r.status = "completed" /\ "google_doc_url" \in DOMAIN r
HappyOrder == <<"load", "download", "transcribe", "publish", "save", "cleanup">>
Skipped(k) == Has(stages[k], "skip")
Saved(k) == Has(stages[k], "save") /\ failed[k] # "save"
SummaryReached == pc \in {"summary", "shutdown", "poweroff", "cancelled", "done"}
RunOver == pc \in {"done", "poweroff", "cancelled", "aborted"}
\* The driver is through with item k: the loop moved past it, or the run
\* ended inside it.
ItemOver(k) == k < i \/ (k = i /\ pc = "aborted")
\* The document publication returned for item k, if any.
DocsOf(k) == { d \in docs : d.text = WhisperText(audio_files[k].gcs_path) }

(***************************************************************************)
(* C1: an item whose loaded record is completed and has a document URL is  *)
(* skipped: the load step that finds such a record changes neither the     *)
(* store, the documents nor the scratch directory, counts the item once    *)
(* and moves the loop on, and the only calls ever made for such an item    *)
(* are the load and the skip.                                              *)
(***************************************************************************)
C1_SkipCompleted ==
    /\ [](\A k \in Items : Skipped(k) => /\ stages[k] = <<"load", "skip">>
                                           /\ counted[k] = 1
                                           /\ k < i)
    /\ [][ (pc = "load" /\ IsDone(metadata'))
           => /\ store' = store
              /\ docs' = docs
              /\ scratch' = scratch
              /\ completed' = completed + 1
              /\ i' = i + 1
              /\ stages'[i] = <<"load", "skip">> ]_vars

C1_Witness ==
    \E k \in Items : /\ stages[k] = <<"load", "skip">>
                     /\ \E r \in RecordSet(store0, KeyOf(k)) : IsDone(r)
                     /\ k < i
                     /\ completed >= 1

(***************************************************************************)
(* C2: an item that is not skipped makes its calls in the order load,      *)
(* download, transcribe, publish, save, cleanup (stopping at the first     *)
(* that raises); an item counted by the happy path made all of them; and   *)
(* once its save succeeded the store holds, under the item's key, a record *)
(* with status completed whose document id and URL are those of the        *)
(* document published for the item, for as long as no later item saves     *)
(* under the same key; the record stays completed with a document id and   *)
(* URL to the end of the run.                                              *)
(***************************************************************************)
C2_HappyPath ==
    \A k \in Items :
        /\ (stages[k] # <<>> /\ ~Skipped(k)) =>
              LET s == IF Has(stages[k], "handler")
                       THEN SubSeq(stages[k], 1, Len(stages[k]) - 1)
                       ELSE stages[k]
              IN Len(s) <= Len(HappyOrder) /\ s = SubSeq(HappyOrder, 1, Len(s))
        /\ (counted[k] = 1 /\ ~Skipped(k)) => stages[k] = HappyOrder
        /\ Saved(k) =>
              /\ Has(stages[k], "cleanup") \/ (k = i /\ pc = "cleanup")
              /\ KeyOf(k) \in DOMAIN store
              /\ IsDone(store[KeyOf(k)])
              /\ "google_doc_id" \in DOMAIN store[KeyOf(k)]
        /\ (Saved(k) /\ \A j \in Items : (j > k /\ Saved(j)) => KeyOf(j) # KeyOf(k)) =>
              \E d \in DocsOf(k) :
                  /\ store[KeyOf(k)].google_doc_id = d.id
                  /\ store[KeyOf(k)].google_doc_url = DocUrl(d.id)
                  /\ store[KeyOf(k)].transcript = d.text

C2_Witness ==
    \E k \in Items :
        /\ k < i
        /\ stages[k] = HappyOrder
        /\ counted[k] = 1
        /\ \A r \in RecordSet(store0, KeyOf(k)) : r.status = "pending"
        /\ IsDone(store[KeyOf(k)])

(***************************************************************************)
(* C3 (as claimed): when the download of an item fails, the record under   *)
(* the item's key is the same at every later point of the run as it was    *)
(* when the run started, no document is created for the item, and the run  *)
(* ends only after every remaining item was processed.                     *)
(***************************************************************************)
C3_DownloadFailureIsolated ==
    \A k \in Items :
        failed[k] = "download" =>
            /\ RecordSet(store, KeyOf(k)) = RecordSet(store0, KeyOf(k))
            /\ DocsOf(k) = {}
            /\ ~Has(stages[k], "save")
            /\ RunOver => \A j \in Items : j > k => stages[j] # <<>>

(***************************************************************************)
(* C4 (as claimed): in a run in which no call fails, at the final summary  *)
(* every one of the N discovered items was attempted and counted exactly   *)
(* once, completed = N, and the skip branch counted exactly the M items    *)
(* that had a completed record with a document URL when the run started.   *)
(***************************************************************************)
NoFailure == unread = {} /\ \A k \in Items : failed[k] = ""
PreCompleted ==
    { k \in Items : \E r \in RecordSet(store0, KeyOf(k)) : IsDone(r) }

C4_CountsWithoutFailure ==
    (SummaryReached /\ NoFailure) =>
        /\ \A k \in Items : stages[k] # <<>> /\ counted[k] = 1
        /\ completed = Len(audio_files)
        /\ Cardinality({ k \in Items : Skipped(k) }) = Cardinality(PreCompleted)
        /\ Cardinality({ k \in Items : stages[k] = HappyOrder })
              = Len(audio_files) - Cardinality(PreCompleted)

(***************************************************************************)
(* C5 (as claimed): distinct discovered objects have distinct record keys, *)
(* and an item is skipped only if a completed record with a document URL   *)
(* was stored under its key before the run: no item is skipped because a   *)
(* different discovered object was completed in this run.                  *)
(***************************************************************************)
C5_OneRecordPerSourceFile ==
    /\ \A j, k \in Items :
          audio_files[j].gcs_path # audio_files[k].gcs_path => KeyOf(j) # KeyOf(k)
    /\ \A k \in Items :
          Skipped(k) => \E r \in RecordSet(store0, KeyOf(k)) : IsDone(r)

(***************************************************************************)
(* C6 (as claimed): no failure of a call made for an item leaves main as   *)
(* an uncaught error, and a run that is over has visited every discovered  *)
(* item exactly once.                                                      *)
(***************************************************************************)
C6_FailuresNeverEscape ==
    /\ pc # "aborted"
    /\ RunOver => \A k \in Items : /\ stages[k] # <<>>
                                   /\ stages[k][1] = "load"
                                   /\ ~Has(Tail(stages[k]), "load")

C8_ShutdownIffSuccess ==
    /\ poweroff <= 1
    /\ pc \in {"shutdown", "poweroff", "cancelled"} => i > Len(audio_files)
    /\ pc = "cancelled" => poweroff = 0
    /\ poweroff = 1 => pc = "poweroff"
    /\ RunOver => (pc \in {"poweroff", "cancelled"}
                      <=> \E k \in Items : counted[k] > 0)

(***************************************************************************)
(* C9: the store changes only in the save step of an item, at most once    *)
(* per item, and the record written then has status completed, the         *)
(* transcript fields, a document id and a document URL; so every record in *)
(* the store is either the one the run started with or such a record, and  *)
(* when transcription or publication fails the store is what it was when   *)
(* the item was started.  When the save fails after a publication, the     *)
(* published document exists and no record in the store names it.          *)
(***************************************************************************)
WrittenRecordOk(r) ==
    /\ r.status = "completed"
    /\ {"transcript", "whisper_model", "google_doc_id", "google_doc_url"}
          \subseteq DOMAIN r

C9_SingleFinalWrite ==
    /\ [][ (pc \in {"load", "download", "transcribe", "publish", "cleanup",
                    "handler"}) => (store' = store) ]_vars
    /\ [][ store' # store =>
              /\ pc = "save"
              /\ ~Has(stages[i], "save")
              /\ pc' = "cleanup"
              /\ \E p \in DOMAIN store' :
                    /\ WrittenRecordOk(store'[p])
                    /\ DOMAIN store' = DOMAIN store \cup {p}
                    /\ \A q \in DOMAIN store : q # p => store'[q] = store[q] ]_vars
    /\ [](\A p \in DOMAIN store :
              store[p] \in RecordSet(store0, p) \/ WrittenRecordOk(store[p]))
    /\ [](\A k \in Items :
              /\ Len(SelectSeq(stages[k], LAMBDA x : x = "save")) <= 1
              /\ (failed[k] = "save" /\ k = i) =>
                    /\ \E d \in DocsOf(k) : d.id = metadata.google_doc_id
                    /\ \A p \in DOMAIN store :
                          "google_doc_id" \in DOMAIN store[p] =>
                              store[p].google_doc_id # metadata.google_doc_id)

C9_Witness ==
    \E k \in Items : /\ k = i
                     /\ failed[k] = "save"
                     /\ DocsOf(k) # {}
                     /\ \E j \in Items : j < k /\ Saved(j)

(***************************************************************************)
(* C10 (as claimed): at the final summary, completed equals the number of  *)
(* discovered items whose record in the store has status completed and a   *)
(* document URL.                                                           *)
(***************************************************************************)
StoredDone == { k \in Items : \E r \in RecordSet(store, KeyOf(k)) : IsDone(r) }

C10_CounterMatchesStore ==
    SummaryReached => completed = Cardinality(StoredDone)

(***************************************************************************)
(* C10 (amended): throughout the run and at the final summary, completed   *)
(* is the number of items counted so far, each at most once, and every     *)
(* counted item has a record with status completed and a document URL in   *)
(* the store; so completed never exceeds the number of discovered items    *)
(* with such a record, but it can be smaller.                              *)
(***************************************************************************)
C10_CountedImpliesStored ==
    /\ \A k \in Items : counted[k] <= 1
    /\ completed = Cardinality({ k \in Items : counted[k] = 1 })
    /\ { k \in Items : counted[k] = 1 } \subseteq StoredDone
    /\ completed <= Cardinality(StoredDone)

C10_Witness ==
    /\ SummaryReached
    /\ \E k \in Items : counted[k] = 1 /\ stages[k] = HappyOrder
    /\ \E k \in Items : failed[k] # ""
    /\ completed < Cardinality(StoredDone)

====
